---------------------------- MODULE Spec2Model ----------------------------
(***************************************************************************)
(* Model of the Capacity Block manager lambda                              *)
(* (src/examples/flashinfer/lambdas/cb-manager/index.py).                  *)
(*                                                                         *)
(* Several invocations of handler() run concurrently.  Each invocation is  *)
(* a sequence of blocking calls to EC2 (the provider: reservations and     *)
(* offerings) and SSM (the parameter store: the purchase lock and the      *)
(* stored CB info).  One action of the model is one such call together     *)
(* with the local computation of the handler that follows it, up to the    *)
(* next call.  Every call may raise; the code's except clauses decide what *)
(* happens then.                                                           *)
(***************************************************************************)
EXTENDS Integers, Sequences, FiniteSets, TLC

(***************************************************************************)
(* Bounds of the model.                                                    *)
(***************************************************************************)
NumProcs == 2
MaxTime == 20
MaxOffers == 3

Procs == 1..NumProcs
\* The clock advances in steps of this many minutes.
ClockSteps == {10}

(***************************************************************************)
(* Program constants.                                                      *)
(***************************************************************************)
\* timedelta(minutes=10) in check_purchase_lock
LOCK_TTL_MINUTES == 10

None == "None"

\* An instance type is the sequence of the pieces of its name, so that
\* replace('.', '-') can be computed on it.
B200 == <<"p6-b200", ".", "48xlarge">>
H100 == <<"p5", ".", "48xlarge">>
InstanceTypes == {B200, H100}
\* No instance type: None, or the empty string
NoType == <<>>
DEFAULT_INSTANCE_TYPE == B200

Zones == {"az-a", "az-b"}

\* str.lower() on the labels the model uses
Lower(label) ==
    CASE label = "H100" -> "h100"
      [] label = "SM100" -> "sm100"
      [] OTHER -> label

LabelKeys == {"b200", "sm100", "blackwell", "h100", "sm90", "hopper"}

LABEL_TO_INSTANCE_TYPE(l) ==
    IF l \in {"b200", "sm100", "blackwell"} THEN B200 ELSE H100

RECURSIVE get_instance_type_from_labels(_)
get_instance_type_from_labels(labels) ==
    IF labels = <<>> THEN NoType
    ELSE IF Lower(Head(labels)) \in LabelKeys
         THEN LABEL_TO_INSTANCE_TYPE(Lower(Head(labels)))
         ELSE get_instance_type_from_labels(Tail(labels))

\* instance_type.replace('.', '-')
SafeName(instance_type) ==
    [i \in DOMAIN instance_type |->
        IF instance_type[i] = "." THEN "-" ELSE instance_type[i]]

\* One lock parameter for every instance type
LockParamShared(instance_type) == <<"purchase-lock">>

\* f"{SSM_PREFIX}/purchase-lock-{safe_name}"
LockParam(instance_type) == <<"purchase-lock">> \o SafeName(instance_type)

LockParams == {LockParam(t) : t \in InstanceTypes}

(***************************************************************************)
(* Sequence helpers.                                                       *)
(***************************************************************************)
RECURSIVE SelectSeqOf(_, _)
\* [x for x in s if Test(x)], with the order kept
SelectSeqOf(s, keep) ==
    IF s = <<>> THEN <<>>
    ELSE IF Head(s) \in keep
         THEN <<Head(s)>> \o SelectSeqOf(Tail(s), keep)
         ELSE SelectSeqOf(Tail(s), keep)

Range(s) == {s[i] : i \in DOMAIN s}

(***************************************************************************)
(* The provider's reservations (ec2.describe_capacity_reservations).       *)
(***************************************************************************)
Reservation(id, state, instance_type, zone, has_end) ==
    [reservation_id |-> id, state |-> state, instance_type |-> instance_type,
     availability_zone |-> zone, has_end_date |-> has_end]

FilterStates == {"active", "pending", "payment-pending"}

\* The server-side Filters of get_active_capacity_blocks (lines 90-96)
MatchesFilters(cr, instance_type, availability_zone) ==
    /\ cr.instance_type = instance_type
    /\ cr.state \in FilterStates
    /\ (availability_zone # None => cr.availability_zone = availability_zone)

\* The list get_active_capacity_blocks builds when the call succeeds
\* (lines 103-121): the matching reservations that have an EndDate.
ActiveCbs(crs, instance_type, availability_zone) ==
    SelectSeqOf(crs, {cr \in Range(crs) :
                        /\ MatchesFilters(cr, instance_type, availability_zone)
                        /\ cr.has_end_date})

\* get_active_capacity_blocks: the list, or [] when the call raised
get_active_capacity_blocks(crs, instance_type, availability_zone, raised) ==
    IF raised THEN <<>>
    ELSE ActiveCbs(crs, instance_type, availability_zone)


(***************************************************************************)
(* The provider's offerings (ec2.describe_capacity_block_offerings).       *)
(***************************************************************************)
\* A start date is a UTC datetime: whole seconds and microseconds.
StartDate(sec, usec) == [sec |-> sec, usec |-> usec]

\* The decimal digits of n, as character codes, in a field w wide
RECURSIVE Digits(_, _)
Digits(n, w) ==
    IF w = 0 THEN <<>> ELSE Digits(n \div 10, w - 1) \o <<48 + (n % 10)>>

\* datetime.isoformat() of a UTC datetime, as character codes: the date and
\* time fields are zero-padded decimals (one field of seconds here), the
\* microseconds are printed only when they are not zero, and the offset
\* "+00:00" ends it.
IsoFormat(d) ==
    Digits(d.sec, 2)
        \o (IF d.usec = 0 THEN <<>> ELSE <<46>> \o Digits(d.usec, 6))
        \o <<43, 48, 48, 58, 48, 48>>

RECURSIVE StrLess(_, _)
\* Python's < on two strings
StrLess(a, b) ==
    IF b = <<>> THEN FALSE
    ELSE IF a = <<>> THEN TRUE
    ELSE IF Head(a) # Head(b) THEN Head(a) < Head(b)
    ELSE StrLess(Tail(a), Tail(b))

\* The dictionary the code builds of one offering (lines 162-171)
OfferingDict(o, instance_type) ==
    [offering_id |-> o.id, instance_type |-> instance_type,
     availability_zone |-> o.zone, start_date |-> IsoFormat(o.start)]

RECURSIVE OfferingDicts(_, _, _)
\* The loop of get_capacity_block_offerings (lines 154-171)
OfferingDicts(offs, instance_type, availability_zone) ==
    IF offs = <<>> THEN <<>>
    ELSE IF availability_zone # None /\ Head(offs).zone # availability_zone
         THEN OfferingDicts(Tail(offs), instance_type, availability_zone)
         ELSE <<OfferingDict(Head(offs), instance_type)>>
                \o OfferingDicts(Tail(offs), instance_type, availability_zone)

\* get_capacity_block_offerings: the list, or [] when the call raised
get_capacity_block_offerings(offs, instance_type, availability_zone, raised) ==
    IF raised THEN <<>>
    ELSE OfferingDicts(offs, instance_type, availability_zone)

RECURSIVE InsertByStartTiesLast(_, _)
\* InsertByStart with x put before the elements of an equal key
InsertByStartTiesLast(s, x) ==
    IF s = <<>> THEN <<x>>
    ELSE IF ~StrLess(Head(s).start_date, x.start_date)
         THEN <<x>> \o s
         ELSE <<Head(s)>> \o InsertByStartTiesLast(Tail(s), x)

RECURSIVE InsertByStart(_, _)
\* x put into the sorted list s after every element whose key is not greater
InsertByStart(s, x) ==
    IF s = <<>> THEN <<x>>
    ELSE IF StrLess(x.start_date, Head(s).start_date)
         THEN <<x>> \o s
         ELSE <<Head(s)>> \o InsertByStart(Tail(s), x)

RECURSIVE SortByStart(_)
\* offerings.sort(key=lambda x: x['start_date']): a stable sort on the string
SortByStart(s) ==
    IF s = <<>> THEN <<>>
    ELSE InsertByStart(SortByStart(SubSeq(s, 1, Len(s) - 1)), s[Len(s)])

\* lines 421-423
SelectOffering(offerings) == SortByStart(offerings)[1]

(***************************************************************************)
(* The purchase lock (an SSM parameter per instance type).                 *)
(***************************************************************************)
\* The value written by set_purchase_lock (lines 224-227).  The timestamp is
\* written with isoformat() and read back with fromisoformat(), which gives
\* back the same instant; it is kept as the minute it was taken.
LockData(timestamp, instance_type) ==
    [timestamp |-> timestamp, instance_type |-> instance_type]

\* The parameter store: the parameters that exist, each with its value
NoParameters == [n \in {} |-> None]

\* ssm.put_parameter(Name=name, Value=value, Overwrite=True)
PutParameter(store, name, value) ==
    [n \in DOMAIN store \cup {name} |-> IF n = name THEN value ELSE store[n]]

\* ssm.delete_parameter(Name=name) when it succeeds
RemoveParameter(store, name) ==
    [n \in DOMAIN store \ {name} |-> store[n]]

\* A lock that never expires
LockNeverExpires(t, lock_time) == FALSE

\* line 198
LockExpired(t, lock_time) == t - lock_time > LOCK_TTL_MINUTES

(***************************************************************************)
(* State.                                                                  *)
(***************************************************************************)
VARIABLES
    now,            \* the clock, in minutes
    reservations,   \* the provider's capacity reservations, in the order
                    \* describe_capacity_reservations lists them
    catalog,        \* the offerings the provider has for sale
    subnet_zones,   \* the zones of the configured subnets (SUBNET_IDS)
    ssm_lock,       \* the purchase-lock parameters that exist: name -> LockData
    ssm_cb_info,    \* the reservation ids with an active-cb parameter
    requests,       \* the events sent to the lambda and not yet picked up
    inv,            \* each invocation's position and local variables
    lock_writer     \* history: the invocation that wrote each lock parameter

vars == <<now, reservations, catalog, subnet_zones, ssm_lock, ssm_cb_info,
          requests, inv, lock_writer>>

\* The response of handler().  A key the response does not have is None, 0
\* (the numbers), the empty list or FALSE.
Response(statusCode, action, result) ==
    [statusCode |-> statusCode, action |-> action, result |-> result,
     capacity_block |-> None, reservation_id |-> 0, offering |-> None,
     active_capacity_blocks |-> <<>>, has_active_cb |-> FALSE]

NoResponse == Response(0, None, None)

\* An invocation slot before handler() is entered.  lock_data is the local
\* of set_purchase_lock, with timestamp -1 before it is set; offerings is
\* handler's list, which line 422 sorts in place.  requested, calls and the
\* fields after them are history, which no action reads: the action asked
\* for, the calls made, the states of the capacity blocks the provider held
\* at the call of line 349, what the read of the lock gave, the timestamp of
\* the lock written and the offering submitted.
IdleInvocation ==
    [pc |-> "idle", action |-> None, instance_type |-> NoType, az |-> None,
     active_cbs_all_az |-> <<>>, active_cbs_this_az |-> <<>>,
     lock_data |-> LockData(-1, NoType),
     offerings |-> <<>>, selected_offering |-> None, response |-> NoResponse,
     requested |-> None, calls |-> <<>>,
     held_at_read |-> {},
     lock_seen |-> None, lock_stamp |-> -1, submitted |-> 0]

\* The states, among those the directory reports, of the capacity blocks
\* of this type the provider holds
HeldStates(crs, instance_type) ==
    {cr.state : cr \in {c \in Range(crs) : /\ c.instance_type = instance_type
                                           /\ c.state \in FilterStates
                                           /\ c.has_end_date}}

(***************************************************************************)
(* handler(), lines 325-345: the event is read.                            *)
(***************************************************************************)
\* An event; a key the event does not have is None, NoType or the empty list.
Event(action, instance_type, labels, availability_zone) ==
    [action |-> action, instance_type |-> instance_type, labels |-> labels,
     availability_zone |-> availability_zone]

\* list(set(...)), line 76: the elements once each, in the order the
\* set iterates them, which is any order
Orderings(S) ==
    {s \in [1..Cardinality(S) -> S] : \A x \in S : \E i \in DOMAIN s : s[i] = x}

\* get_subnet_availability_zones(), lines 69-81: the lists it can return.
\* Nothing when no subnets are configured or the call raised, else the
\* subnets' zones, each once, in any order.
get_subnet_availability_zones(zones, raised) ==
    IF raised THEN {<<>>} ELSE Orderings(Range(zones))

\* lines 331-337: explicit > from labels > default
ResolveInstanceType(event_type, labels) ==
    LET from_labels == IF event_type = NoType /\ labels # <<>>
                       THEN get_instance_type_from_labels(labels)
                       ELSE event_type
    IN IF from_labels = NoType THEN DEFAULT_INSTANCE_TYPE ELSE from_labels

\* lines 340-343
ResolveZone(event_zone, azs) ==
    IF event_zone # None THEN event_zone
    ELSE IF azs # <<>> THEN azs[1] ELSE None

\* line 327
ResolveAction(event_action) ==
    IF event_action = None THEN "ensure" ELSE event_action

Invoke(p) ==
    /\ inv[p].pc = "idle"
    /\ \A q \in Procs : q < p => inv[q].pc # "idle"
    /\ requests # <<>>
    /\ \E raised \in BOOLEAN :
       \E azs \in get_subnet_availability_zones(subnet_zones, raised) :
         LET event == Head(requests)
             instance_type ==
                 ResolveInstanceType(event.instance_type, event.labels)
         IN inv' = [inv EXCEPT ![p] =
                [IdleInvocation EXCEPT
                    !.pc = "describe_all",
                    !.action = ResolveAction(event.action),
                    !.instance_type = instance_type,
                    !.az = ResolveZone(event.availability_zone, azs),
                    !.requested = ResolveAction(event.action)]]
    /\ requests' = Tail(requests)
    /\ UNCHANGED <<now, reservations, catalog, subnet_zones, ssm_lock,
                   ssm_cb_info,
                   lock_writer>>

(***************************************************************************)
(* handler(), lines 352-406: what follows the two directory queries, up to *)
(* the first call of set_purchase_lock.                                    *)
(***************************************************************************)
ActiveAny(cbs) == SelectSeqOf(cbs, {cb \in Range(cbs) : cb.state = "active"})

PendingCbs(cbs) ==
    SelectSeqOf(cbs, {cb \in Range(cbs) :
                        cb.state \in {"pending", "payment-pending"}})

\* EnsureDecision with the pending test made before the active one
EnsureDecisionPendingFirst(active_cbs_all_az) ==
    IF PendingCbs(active_cbs_all_az) # <<>> THEN "pending"
    ELSE IF ActiveAny(active_cbs_all_az) # <<>> THEN "exists"
    ELSE "purchase"

\* lines 362-395: what ensure decides from the directory's list
EnsureDecision(active_cbs_all_az) ==
    IF ActiveAny(active_cbs_all_az) # <<>> THEN "exists"
    ELSE IF PendingCbs(active_cbs_all_az) # <<>> THEN "pending"
    ELSE "purchase"

\* The list the ensure branch decides on (line 349's, not line 350's)
EnsureList(r) == r.active_cbs_all_az

Return(r, response) == [r EXCEPT !.pc = "done", !.response = response]

\* Dispatch with status not among the read-only actions and the purchase
\* branch taken by every action that reaches it
DispatchStatusPurchases(r) ==
    IF r.action = "check"
    THEN Return(r, [Response(200, r.action, None) EXCEPT
                        !.active_capacity_blocks = r.active_cbs_all_az,
                        !.has_active_cb = Len(r.active_cbs_all_az) > 0])
    ELSE IF r.action = "ensure" /\ EnsureDecision(EnsureList(r)) = "exists"
    THEN Return(r, [Response(200, "ensure", "exists") EXCEPT
                        !.capacity_block = ActiveAny(EnsureList(r))[1]])
    ELSE IF r.action = "ensure" /\ EnsureDecision(EnsureList(r)) = "pending"
    THEN Return(r, [Response(200, "ensure", "pending") EXCEPT
                        !.capacity_block = PendingCbs(EnsureList(r))[1]])
    ELSE [r EXCEPT !.action = "purchase", !.pc = "get_lock"]

\* lines 352-406, up to the call of set_purchase_lock
Dispatch(r) ==
    IF r.action \in {"check", "status"}
    THEN Return(r, [Response(200, r.action, None) EXCEPT
                        !.active_capacity_blocks = r.active_cbs_all_az,
                        !.has_active_cb = Len(r.active_cbs_all_az) > 0])
    ELSE IF r.action = "ensure" /\ EnsureDecision(EnsureList(r)) = "exists"
    THEN Return(r, [Response(200, "ensure", "exists") EXCEPT
                        !.capacity_block = ActiveAny(EnsureList(r))[1]])
    ELSE IF r.action = "ensure" /\ EnsureDecision(EnsureList(r)) = "pending"
    THEN Return(r, [Response(200, "ensure", "pending") EXCEPT
                        !.capacity_block = PendingCbs(EnsureList(r))[1]])
    ELSE IF r.action \in {"ensure", "purchase"}
    THEN [r EXCEPT !.action = "purchase", !.pc = "get_lock"]
    ELSE Return(r, Response(400, None, None))

\* line 349
DescribeAll(p) ==
    /\ inv[p].pc = "describe_all"
    /\ \E raised \in BOOLEAN :
         LET r == [inv[p] EXCEPT
                    !.active_cbs_all_az =
                        get_active_capacity_blocks(reservations,
                            inv[p].instance_type, None, raised),
                    !.calls = Append(@, "describe_all"),
                    !.held_at_read =
                        HeldStates(reservations, inv[p].instance_type)]
         IN inv' = [inv EXCEPT ![p] =
                IF r.az # None
                THEN [r EXCEPT !.pc = "describe_az"]
                ELSE Dispatch([r EXCEPT
                        !.active_cbs_this_az = r.active_cbs_all_az])]
    /\ UNCHANGED <<now, reservations, catalog, subnet_zones, ssm_lock,
                   ssm_cb_info,
                   requests, lock_writer>>

\* line 350, when az is set
DescribeAz(p) ==
    /\ inv[p].pc = "describe_az"
    /\ \E raised \in BOOLEAN :
         inv' = [inv EXCEPT ![p] =
            Dispatch([inv[p] EXCEPT
                !.active_cbs_this_az =
                    get_active_capacity_blocks(reservations,
                        inv[p].instance_type, inv[p].az, raised),
                !.calls = Append(@, "describe_az")])]
    /\ UNCHANGED <<now, reservations, catalog, subnet_zones, ssm_lock,
                   ssm_cb_info,
                   requests, lock_writer>>

(***************************************************************************)
(* set_purchase_lock(), lines 213-240, and check_purchase_lock() in it.    *)
(***************************************************************************)
\* The invocation goes on to the offerings although set_purchase_lock
\* returned False
LockedProceeds(r) == [r EXCEPT !.pc = "describe_offerings"]

\* lines 399-406: set_purchase_lock returned False
Locked(r) ==
    Return(r, Response(200, "purchase", "locked"))

\* What check_purchase_lock makes of the answer of ssm.get_parameter:
\* "error" (any exception but ParameterNotFound), "absent", "expired" or
\* "fresh".
LockSeen(raised, store, name, t) ==
    IF raised THEN "error"
    ELSE IF name \notin DOMAIN store THEN "absent"
    ELSE IF LockExpired(t, store[name].timestamp) THEN "expired"
    ELSE "fresh"

\* AfterLockSeen with check_purchase_lock returning False on a fresh lock
AfterLockSeenIgnoresFresh(r, seen) ==
    IF seen = "expired" THEN [r EXCEPT !.pc = "delete_expired"]
    ELSE [r EXCEPT !.pc = "put_lock"]

\* AfterLockSeen going to the offerings, without the write of the lock,
\* when check_purchase_lock returns False
AfterLockSeenSkipsWrite(r, seen) ==
    IF seen = "fresh" THEN Locked(r)
    ELSE [r EXCEPT !.pc = "describe_offerings"]

\* Where the invocation goes on what it made of the lock: check_purchase_lock
\* returns True on a fresh lock only (lines 198-210).
AfterLockSeen(r, seen) ==
    IF seen = "fresh" THEN Locked(r)
    ELSE IF seen = "expired" THEN [r EXCEPT !.pc = "delete_expired"]
    ELSE [r EXCEPT !.pc = "put_lock"]

\* lines 221-227: set_purchase_lock goes on to the write when
\* check_purchase_lock has returned False, and takes the timestamp of the
\* lock before it calls ssm.put_parameter
WithLockData(r, t) ==
    IF r.pc = "put_lock"
    THEN [r EXCEPT !.lock_data = LockData(t, r.instance_type)]
    ELSE r

\* ssm.get_parameter, line 192, and lines 195-210, 218-227
GetLockParameter(p) ==
    /\ inv[p].pc = "get_lock"
    /\ \E raised \in BOOLEAN :
         LET seen == LockSeen(raised, ssm_lock,
                              LockParam(inv[p].instance_type), now)
         IN inv' = [inv EXCEPT ![p] =
                WithLockData(
                    AfterLockSeen([inv[p] EXCEPT
                                     !.calls = Append(@, "get_parameter"),
                                     !.lock_seen = seen], seen), now)]
    /\ UNCHANGED <<now, reservations, catalog, subnet_zones, ssm_lock,
                   ssm_cb_info,
                   requests, lock_writer>>

\* ssm.delete_parameter: the parameter is gone when the call succeeds
\* (and when it was not there: ParameterNotFound changes nothing)
DeleteParameter(store, name, raised) ==
    IF ~raised THEN RemoveParameter(store, name) ELSE store

\* ssm.delete_parameter, line 200; check_purchase_lock returns False
\* whether it succeeds (line 201) or raises (lines 206-210), and
\* set_purchase_lock goes on to lines 221-227
DeleteExpiredLock(p) ==
    /\ inv[p].pc = "delete_expired"
    /\ \E raised \in BOOLEAN :
         LET name == LockParam(inv[p].instance_type)
         IN /\ ssm_lock' = DeleteParameter(ssm_lock, name, raised)
            /\ lock_writer' = DeleteParameter(lock_writer, name, raised)
    /\ inv' = [inv EXCEPT ![p] =
            WithLockData([inv[p] EXCEPT
                            !.pc = "put_lock",
                            !.calls = Append(@, "delete_parameter")], now)]
    /\ UNCHANGED <<now, reservations, catalog, subnet_zones, ssm_cb_info,
                   requests>>

\* ssm.put_parameter(..., Overwrite=True), lines 229-240, of the
\* lock_data of lines 224-227
PutLockParameter(p) ==
    /\ inv[p].pc = "put_lock"
    /\ \E raised \in BOOLEAN :
         LET name == LockParam(inv[p].instance_type)
             r == [inv[p] EXCEPT !.calls = Append(@, "put_parameter")]
         IN IF ~raised
            THEN /\ ssm_lock' = PutParameter(ssm_lock, name, r.lock_data)
                 /\ lock_writer' = PutParameter(lock_writer, name, p)
                 /\ inv' = [inv EXCEPT ![p] =
                        [r EXCEPT !.pc = "describe_offerings",
                                  !.lock_stamp = r.lock_data.timestamp]]
            ELSE /\ inv' = [inv EXCEPT ![p] = Locked(r)]
                 /\ UNCHANGED <<ssm_lock, lock_writer>>
    /\ UNCHANGED <<now, reservations, catalog, subnet_zones, ssm_cb_info,
                   requests>>

(***************************************************************************)
(* handler(), lines 408-449: the purchase, under the lock.                 *)
(***************************************************************************)
\* lines 410-427; offerings.sort of line 422 sorts the list in place
DescribeOfferings(p) ==
    /\ inv[p].pc = "describe_offerings"
    /\ \E raised \in BOOLEAN :
         LET offerings == get_capacity_block_offerings(catalog,
                              inv[p].instance_type, inv[p].az, raised)
             r == [inv[p] EXCEPT !.offerings = SortByStart(offerings),
                                 !.calls = Append(@, "describe_offerings")]
         IN inv' = [inv EXCEPT ![p] =
                IF offerings = <<>>
                THEN [r EXCEPT !.pc = "clear_lock",
                               !.response =
                                   Response(404, "purchase", "no_offerings")]
                ELSE [r EXCEPT !.pc = "purchase",
                               !.selected_offering =
                                   SelectOffering(offerings)]]
    /\ UNCHANGED <<now, reservations, catalog, subnet_zones, ssm_lock,
                   ssm_cb_info,
                   requests, lock_writer>>

\* ec2.purchase_capacity_block, lines 260-277 and 284-286, and lines 432-446
PurchaseCapacityBlock(p) ==
    /\ inv[p].pc = "purchase"
    /\ \E raised \in BOOLEAN :
         LET r == [inv[p] EXCEPT
                    !.calls = Append(@, "purchase"),
                    !.submitted = inv[p].selected_offering.offering_id]
             reservation_id == Len(reservations) + 1
         IN IF ~raised
            THEN /\ reservations' = Append(reservations,
                        Reservation(reservation_id, "payment-pending",
                                    r.selected_offering.instance_type,
                                    r.selected_offering.availability_zone,
                                    TRUE))
                 /\ inv' = [inv EXCEPT ![p] =
                        [r EXCEPT !.pc = "store_cb_info",
                                  !.response =
                                      [Response(200, "purchase", "purchased")
                                          EXCEPT
                                          !.reservation_id = reservation_id,
                                          !.offering = r.selected_offering]]]
            ELSE /\ inv' = [inv EXCEPT ![p] =
                        [r EXCEPT !.pc = "clear_lock",
                                  !.response =
                                      Response(500, "purchase", "failed")]]
                 /\ UNCHANGED reservations
    /\ UNCHANGED <<now, catalog, subnet_zones, ssm_lock, ssm_cb_info, requests,
                   lock_writer>>

\* store_cb_info(), lines 289-312
StoreCbInfo(p) ==
    /\ inv[p].pc = "store_cb_info"
    /\ \E raised \in BOOLEAN :
         ssm_cb_info' = IF ~raised
                        THEN ssm_cb_info \cup {inv[p].response.reservation_id}
                        ELSE ssm_cb_info
    /\ inv' = [inv EXCEPT ![p] =
            [inv[p] EXCEPT !.pc = "clear_lock",
                           !.calls = Append(@, "store_cb_info")]]
    /\ UNCHANGED <<now, reservations, catalog, subnet_zones, ssm_lock,
                   requests,
                   lock_writer>>

\* What ssm.delete_parameter raises: ParameterNotFound when the parameter
\* does not exist, another exception when the call fails, else nothing
DeleteAnswer(store, name, raised) ==
    IF raised THEN "Exception"
    ELSE IF name \notin DOMAIN store THEN "ParameterNotFound"
    ELSE None

\* clear_purchase_lock with its first except clause only
ClearCaughtNotFound == {"ParameterNotFound"}

\* clear_purchase_lock with no except clause
ClearCaughtNothing == {}

\* The exceptions clear_purchase_lock catches (lines 249-252)
ClearCaught == {"ParameterNotFound", "Exception"}

\* clear_purchase_lock(), lines 243-252: the store it leaves, and whether
\* an exception leaves the function
clear_purchase_lock(store, instance_type, raised) ==
    LET name == LockParam(instance_type)
    IN [store |-> DeleteParameter(store, name, raised),
        raises |-> DeleteAnswer(store, name, raised)
                       \notin ClearCaught \cup {None}]

\* clear_purchase_lock() in the finally of line 448; then the handler
\* returns the response it built, unless an exception left the finally
ClearPurchaseLock(p) ==
    /\ inv[p].pc = "clear_lock"
    /\ \E raised \in BOOLEAN :
         LET name == LockParam(inv[p].instance_type)
             cleared == clear_purchase_lock(ssm_lock, inv[p].instance_type,
                                            raised)
             r == [inv[p] EXCEPT !.calls = Append(@, "clear_lock")]
         IN /\ ssm_lock' = cleared.store
            /\ lock_writer' = DeleteParameter(lock_writer, name, raised)
            /\ inv' = [inv EXCEPT ![p] =
                    IF cleared.raises
                    THEN [r EXCEPT !.pc = "crashed", !.response = NoResponse]
                    ELSE [r EXCEPT !.pc = "done"]]
    /\ UNCHANGED <<now, reservations, catalog, subnet_zones, ssm_cb_info,
                   requests>>

(***************************************************************************)
(* The environment: time passes.                                           *)
(***************************************************************************)
Tick ==
    /\ \E d \in ClockSteps : /\ now + d <= MaxTime
                             /\ now' = now + d
    /\ UNCHANGED <<reservations, catalog, subnet_zones, ssm_lock,
                   ssm_cb_info, requests, inv, lock_writer>>

Step(p) ==
    \/ Invoke(p)
    \/ DescribeAll(p)
    \/ DescribeAz(p)
    \/ GetLockParameter(p)
    \/ DeleteExpiredLock(p)
    \/ PutLockParameter(p)
    \/ DescribeOfferings(p)
    \/ PurchaseCapacityBlock(p)
    \/ StoreCbInfo(p)
    \/ ClearPurchaseLock(p)

Next ==
    \/ \E p \in Procs : Step(p)
    \/ Tick

(***************************************************************************)
(* The environments and the requests of the specifications.                *)
(***************************************************************************)
Offering(id, zone, start) == [id |-> id, zone |-> zone, start |-> start]

\* Reservations the provider may hold before the first invocation.
InitialReservations ==
    { <<>>,
      <<Reservation(1, "active", B200, "az-b", TRUE)>>,
      <<Reservation(1, "pending", B200, "az-a", TRUE),
        Reservation(2, "active", B200, "az-b", TRUE)>>,
      <<Reservation(1, "payment-pending", B200, "az-a", TRUE)>>,
      <<Reservation(1, "active", B200, "az-a", FALSE),
        Reservation(2, "expired", B200, "az-a", TRUE)>> }

\* Offerings the provider may have for sale.
SomeCatalogs ==
    { <<>>,
      <<Offering(1, "az-a", StartDate(3, 0)),
        Offering(2, "az-a", StartDate(1, 0)),
        Offering(3, "az-b", StartDate(1, 0))>> }

\* The events: no action (ensure), the four actions and an unknown one; the
\* default instance type, one from the labels, an explicit one; no zone or
\* a zone.
EventActions == {None, "check", "status", "ensure", "purchase", "restart"}
EventTypes == { <<NoType, <<>>>>, <<NoType, <<"gpu", "H100">>>>,
                <<B200, <<"hopper">>>> }
EventZones == {None, "az-a"}
Events ==
    { Event(a, t[1], t[2], z) :
        a \in EventActions, t \in EventTypes, z \in EventZones }

\* The events that may go on to purchase
PurchaseEvents ==
    { Event(a, t[1], t[2], None) :
        a \in {None, "purchase"},
        t \in { <<NoType, <<>>>>, <<NoType, <<"gpu", "H100">>>> } }

\* Init but for the environment and the requests
InitRest ==
    /\ now = 0
    /\ ssm_cb_info = {}
    /\ inv = [p \in Procs |-> IdleInvocation]

\* Two concurrent invocations that may purchase; no reservation and no lock
\* to start with.
Init ==
    /\ InitRest
    /\ reservations = <<>>
    /\ catalog = <<Offering(1, "az-a", StartDate(3, 0)),
                   Offering(2, "az-a", StartDate(1, 0)),
                   Offering(3, "az-b", StartDate(1, 0))>>
    /\ subnet_zones = <<"az-a", "az-b">>
    /\ ssm_lock = NoParameters
    /\ lock_writer = NoParameters
    /\ requests \in {<<e1, e2>> : e1 \in PurchaseEvents, e2 \in PurchaseEvents}

Spec == Init /\ [][Next]_vars

\* Two concurrent ensure invocations, for the same instance type or for two
PairEvents ==
    { <<Event(None, NoType, <<>>, None), e>> :
        e \in { Event(None, NoType, <<>>, None),
                Event(None, NoType, <<"gpu", "H100">>, None) } }

InitPair ==
    /\ InitRest
    /\ reservations = <<>>
    /\ catalog = <<Offering(1, "az-a", StartDate(3, 0)),
                   Offering(2, "az-a", StartDate(1, 0)),
                   Offering(3, "az-b", StartDate(1, 0))>>
    /\ subnet_zones = <<"az-a", "az-b">>
    /\ ssm_lock = NoParameters
    /\ lock_writer = NoParameters
    /\ requests \in PairEvents

SpecPair == InitPair /\ [][Next]_vars

\* The lock an earlier invocation (number 0) left behind for the default
\* instance type, or none.
LeftLocks ==
    { <<NoParameters, NoParameters>>,
      <<PutParameter(NoParameters, LockParam(B200), LockData(0, B200)),
        PutParameter(NoParameters, LockParam(B200), 0)>> }

\* One invocation, of any event, in any of the environments
InitOne ==
    /\ InitRest
    /\ reservations \in InitialReservations
    /\ catalog \in SomeCatalogs
    /\ subnet_zones \in {<<>>, <<"az-a", "az-b">>}
    /\ \E l \in LeftLocks : ssm_lock = l[1] /\ lock_writer = l[2]
    /\ requests \in {<<e>> : e \in Events}

SpecOne == InitOne /\ [][Next]_vars

\* The start dates of the offerings: two in the same second, and two whose
\* seconds differ in their number of digits
StartDates == {StartDate(9, 0), StartDate(10, 0), StartDate(10, 500000)}

\* The catalogs of n offerings, the i-th with identity i
RECURSIVE CatalogsOf(_)
CatalogsOf(n) ==
    IF n = 0 THEN {<<>>}
    ELSE { Append(c, Offering(n, z, d)) :
             c \in CatalogsOf(n - 1), z \in Zones, d \in StartDates }

CatalogsUpTo(n) == UNION {CatalogsOf(k) : k \in 0..n}

\* One ensure invocation with no reservation, on any catalog
InitOffers ==
    /\ InitRest
    /\ reservations = <<>>
    /\ catalog \in CatalogsUpTo(MaxOffers)
    /\ subnet_zones \in {<<>>, <<"az-a", "az-b">>}
    /\ \E l \in LeftLocks : ssm_lock = l[1] /\ lock_writer = l[2]
    /\ requests = <<Event("ensure", NoType, <<>>, None)>>

SpecOffers == InitOffers /\ [][Next]_vars

\* The scheduled rule sends the next ensure event once the invocation
\* has returned, for as long as the provider holds no reservation.
Reinvoke(p) ==
    /\ inv[p].pc = "done"
    /\ reservations = <<>>
    /\ requests = <<>>
    /\ inv' = [inv EXCEPT ![p] = IdleInvocation]
    /\ requests' = <<Event("ensure", NoType, <<>>, None)>>
    /\ UNCHANGED <<now, reservations, catalog, subnet_zones, ssm_lock,
                   ssm_cb_info, lock_writer>>

NextRepeat ==
    \/ Next
    \/ \E p \in Procs : Reinvoke(p)

\* An invocation that was granted the lock at minute 0 stopped without
\* releasing it; ensure is invoked again and again.
InitRepeat ==
    /\ InitRest
    /\ reservations = <<>>
    /\ catalog \in SomeCatalogs
    /\ subnet_zones = <<"az-a", "az-b">>
    /\ ssm_lock = PutParameter(NoParameters, LockParam(B200),
                               LockData(0, B200))
    /\ lock_writer = PutParameter(NoParameters, LockParam(B200), 0)
    /\ requests = <<Event("ensure", NoType, <<>>, None)>>

\* Time advances, an invocation that has started goes on, the rule keeps
\* firing, and the write of the lock does not fail for ever.
FairRepeat ==
    /\ WF_vars(Tick)
    /\ \A p \in Procs :
         /\ WF_vars(Step(p))
         /\ WF_vars(Reinvoke(p))
         /\ SF_vars(PutLockParameter(p) /\ inv'[p].lock_stamp # -1)

SpecRepeat == InitRepeat /\ [][NextRepeat]_vars /\ FairRepeat

\* One invocation of any action for the default instance type, which goes
\* on once it has started
InitAnswer ==
    /\ InitRest
    /\ reservations \in InitialReservations
    /\ catalog \in SomeCatalogs
    /\ subnet_zones = <<"az-a", "az-b">>
    /\ \E l \in LeftLocks : ssm_lock = l[1] /\ lock_writer = l[2]
    /\ requests \in {<<Event(a, NoType, <<>>, None)>> : a \in EventActions}

SpecAnswer ==
    InitAnswer /\ [][Next]_vars /\ \A p \in Procs : WF_vars(Step(p))

(***************************************************************************)
(* What the claims speak of.                                               *)
(***************************************************************************)
Done(p) == inv[p].pc = "done"

Result(p) == inv[p].response.result

\* set_purchase_lock returned True and clear_purchase_lock has not run
Granted(p) ==
    inv[p].pc \in {"describe_offerings", "purchase", "store_cb_info",
                   "clear_lock"}

\* The lease p wrote is younger than the TTL
LeaseValid(p) == ~LockExpired(now, inv[p].lock_stamp)

\* p takes a step
Steps(p) == inv'[p] # inv[p]

DirectoryCalls == {"describe_all", "describe_az"}

LockPresent(instance_type) == LockParam(instance_type) \in DOMAIN ssm_lock

(***************************************************************************)
(* C1.  Of the concurrent ensure invocations for one instance type that    *)
(* ran while the provider held no capacity block of that type, at most one *)
(* returns purchased.                                                      *)
(* Stated of the invocations that found no capacity block when they        *)
(* queried the directory and no lock when they read it: the code reads the *)
(* lock and writes it in two calls, so that two invocations can both find  *)
(* no lock, both write it and both purchase.                               *)
(***************************************************************************)
FoundNothing(p) == inv[p].held_at_read = {} /\ inv[p].lock_seen = "absent"

PurchasedEnsures(t) ==
    {p \in Procs : /\ inv[p].requested = "ensure"
                   /\ inv[p].instance_type = t
                   /\ FoundNothing(p)
                   /\ Done(p)
                   /\ Result(p) = "purchased"}

C1_AtMostOnePurchased ==
    \A t \in InstanceTypes : Cardinality(PurchasedEnsures(t)) <= 1

(***************************************************************************)
(* C2.  For each instance type at most one invocation is granted the lock  *)
(* (set_purchase_lock returned True, clear_purchase_lock not yet run) with *)
(* a lease younger than the TTL; in particular, two invocations that both  *)
(* read the lock as absent are not both granted.                           *)
(***************************************************************************)
ValidHolders(t) ==
    {p \in Procs : /\ Granted(p)
                   /\ inv[p].instance_type = t
                   /\ LeaseValid(p)
                   /\ inv[p].lock_seen = "absent"}

C2_LeaseMutualExclusion ==
    \A t \in InstanceTypes : Cardinality(ValidHolders(t)) <= 1

(***************************************************************************)
(* C3.  No invocation calls purchase_capacity_block for an instance type   *)
(* while the provider holds an active, pending or payment-pending capacity *)
(* block of that type, or while another invocation holds an unexpired      *)
(* lease for it.  Stated of the ensure invocations that found no capacity  *)
(* block and no lock.                                                      *)
(***************************************************************************)
Submits(p) == inv[p].pc = "purchase" /\ inv'[p].pc # "purchase"

OtherHoldsLease(p) == ValidHolders(inv[p].instance_type) \ {p} # {}

C3_NoSubmitWhileHeld ==
    [][\A p \in Procs :
          (Submits(p) /\ inv[p].requested = "ensure" /\ FoundNothing(p))
            => /\ HeldStates(reservations, inv[p].instance_type) = {}
               /\ ~OtherHoldsLease(p)]_vars

(***************************************************************************)
(* C4.  An ensure invocation returns exists whenever the provider holds an *)
(* active capacity block of the instance type, in any zone, when the       *)
(* invocation queries the directory.                                       *)
(***************************************************************************)
C4_ExistsWheneverActive ==
    \A p \in Procs :
        (inv[p].requested = "ensure" /\ Done(p)
            /\ "active" \in inv[p].held_at_read)
            => Result(p) = "exists"

(***************************************************************************)
(* C5.  When an invocation that was granted the lock returns, the lock     *)
(* parameter it wrote is not in the store.                                 *)
(***************************************************************************)
C5_LeaseReleasedOnReturn ==
    \A p \in Procs :
        (Done(p) /\ inv[p].lock_stamp # -1)
            => ~(/\ LockPresent(inv[p].instance_type)
                 /\ lock_writer[LockParam(inv[p].instance_type)] = p)

(***************************************************************************)
(* C6.  Fail closed: an invocation whose read of the lock raised an error  *)
(* other than not-found is denied: it returns locked, having written no    *)
(* lock, queried no offerings and submitted no purchase.                   *)
(***************************************************************************)
C6_FailClosed ==
    \A p \in Procs :
        inv[p].lock_seen = "error"
            => /\ Done(p)
               /\ Result(p) = "locked"
               /\ inv[p].calls[Len(inv[p].calls)] = "get_parameter"

(***************************************************************************)
(* C7.  A lock older than 10 minutes is treated as absent by               *)
(* set_purchase_lock: unless the write fails the call is granted and the   *)
(* store then holds a lock stamped with the current time.  A lock of 10    *)
(* minutes or less makes set_purchase_lock deny, and stays as it is.       *)
(***************************************************************************)
ReadsLock(p) == inv[p].pc = "get_lock" /\ Steps(p)

LockAge(instance_type) == now - ssm_lock[LockParam(instance_type)].timestamp

C7_TtlDecidesTheLock ==
    [][\A p \in Procs :
          /\ (/\ ReadsLock(p)
              /\ LockPresent(inv[p].instance_type)
              /\ LockAge(inv[p].instance_type) <= LOCK_TTL_MINUTES)
                => /\ inv'[p].pc = "done"
                   /\ inv'[p].response.result = "locked"
                   /\ ssm_lock' = ssm_lock
          /\ (/\ ReadsLock(p)
              /\ LockPresent(inv[p].instance_type)
              /\ LockAge(inv[p].instance_type) > LOCK_TTL_MINUTES)
                => inv'[p].pc \in {"delete_expired", "put_lock"}
          /\ (inv[p].pc = "put_lock" /\ inv'[p].pc = "describe_offerings")
                => ssm_lock'[LockParam(inv[p].instance_type)] =
                       LockData(now, inv[p].instance_type)]_vars

(***************************************************************************)
(* C8.  A check or status invocation calls nothing but the directory, and  *)
(* none of its steps changes the lock parameters, the provider's           *)
(* reservations or the stored CB info.                                     *)
(***************************************************************************)
ReadOnly(p) == inv[p].requested \in {"check", "status"}

C8_CheckStatusReadOnly ==
    [][\A p \in Procs :
          (ReadOnly(p) /\ Steps(p))
            => /\ ssm_lock' = ssm_lock
               /\ reservations' = reservations
               /\ ssm_cb_info' = ssm_cb_info
               /\ Range(inv'[p].calls) \subseteq DirectoryCalls
               /\ inv'[p].pc \in {"describe_az", "done"}]_vars

\* A status invocation has returned the capacity block it found, with a
\* lock in the store
C8_Witness ==
    \E p \in Procs : /\ inv[p].requested = "status"
                     /\ Done(p)
                     /\ inv[p].response.has_active_cb
                     /\ LockPresent(inv[p].instance_type)

(***************************************************************************)
(* C9.  An ensure invocation whose all-zones list holds an active capacity *)
(* block returns exists with an active block of the list; else, if the     *)
(* list holds a pending or payment-pending one, it returns pending with    *)
(* such a block of the list.  Either way it calls nothing but the          *)
(* directory: no lock read, write or delete, no offerings, no purchase.    *)
(***************************************************************************)
HasListed(p) == inv[p].requested = "ensure" /\ inv[p].pc # "describe_all"

ReturnsBlock(p, result, states) ==
    /\ inv[p].pc \in {"describe_az", "done"}
    /\ Range(inv[p].calls) \subseteq DirectoryCalls
    /\ Done(p) => /\ Result(p) = result
                  /\ inv[p].response.capacity_block
                        \in Range(inv[p].active_cbs_all_az)
                  /\ inv[p].response.capacity_block.state \in states

C9_ExistsOrPending ==
    \A p \in Procs :
        HasListed(p) =>
            /\ ActiveAny(inv[p].active_cbs_all_az) # <<>>
                 => ReturnsBlock(p, "exists", {"active"})
            /\ (/\ ActiveAny(inv[p].active_cbs_all_az) = <<>>
                /\ PendingCbs(inv[p].active_cbs_all_az) # <<>>)
                 => ReturnsBlock(p, "pending", {"pending", "payment-pending"})

\* An ensure invocation has returned exists on a list whose first block is
\* pending and whose second is active
C9_Witness ==
    \E p \in Procs : /\ inv[p].requested = "ensure"
                     /\ Done(p)
                     /\ Result(p) = "exists"
                     /\ Len(inv[p].active_cbs_all_az) = 2
                     /\ inv[p].active_cbs_all_az[1].state = "pending"

(***************************************************************************)
(* C10.  The offering whose identity is submitted, and is reported in the  *)
(* purchased response, starts no later than any offering of the list the   *)
(* catalog returned, and is the first of the list with that start.         *)
(***************************************************************************)
\* The start of the offering of this identity, as the provider has it
StartOf(offering_id) ==
    (CHOOSE o \in Range(catalog) : o.id = offering_id).start

\* d is before e
Before(d, e) == d.sec < e.sec \/ (d.sec = e.sec /\ d.usec < e.usec)

\* The identity of the first offering of the list among the earliest
FirstEarliest(offerings) ==
    LET i == CHOOSE i \in DOMAIN offerings :
                /\ \A j \in DOMAIN offerings :
                     ~Before(StartOf(offerings[j].offering_id),
                             StartOf(offerings[i].offering_id))
                /\ \A j \in 1..(i - 1) :
                     StartOf(offerings[j].offering_id)
                        # StartOf(offerings[i].offering_id)
    IN offerings[i].offering_id

\* The list the catalog returned to p, before handler sorted it
Returned(p) ==
    get_capacity_block_offerings(catalog, inv[p].instance_type, inv[p].az,
                                 FALSE)

C10_EarliestFirstOffering ==
    \A p \in Procs :
        /\ inv[p].submitted # 0
             => inv[p].submitted = FirstEarliest(Returned(p))
        /\ (Done(p) /\ Result(p) = "purchased")
             => inv[p].response.offering.offering_id
                    = FirstEarliest(Returned(p))

\* A purchase has been made from a list of three offerings, of which the
\* second and the third start together, before the first
C10_Witness ==
    \E p \in Procs :
        /\ Done(p)
        /\ Result(p) = "purchased"
        /\ Len(Returned(p)) = 3
        /\ inv[p].offerings # Returned(p)
        /\ inv[p].submitted = 2
        /\ StartOf(2) = StartOf(3)
        /\ Before(StartOf(2), StartOf(1))

(***************************************************************************)
(* C11.  clear_purchase_lock is idempotent.  Called when the store holds   *)
(* no lock for the instance type it raises no error and leaves the store   *)
(* as it is, whatever SSM answers; called twice in a row it leaves the     *)
(* store as one call does, without the lock; and no invocation ends with   *)
(* an exception out of its release.                                        *)
(***************************************************************************)
C11_ReleaseIdempotent ==
    /\ \A t \in InstanceTypes :
         LET once == clear_purchase_lock(ssm_lock, t, FALSE)
             twice == clear_purchase_lock(once.store, t, FALSE)
         IN /\ ~once.raises
            /\ ~twice.raises
            /\ twice.store = once.store
            /\ LockParam(t) \notin DOMAIN once.store
            /\ \A raised \in BOOLEAN :
                 /\ ~clear_purchase_lock(ssm_lock, t, raised).raises
                 /\ ~LockPresent(t) =>
                        clear_purchase_lock(ssm_lock, t, raised).store
                            = ssm_lock
    /\ \A p \in Procs : inv[p].pc # "crashed"

\* One invocation has released the lock and returned, and another is about
\* to release it with no lock in the store
C11_Witness ==
    \E p, q \in Procs :
        /\ p # q
        /\ inv[p].instance_type = inv[q].instance_type
        /\ Done(p)
        /\ inv[p].calls[Len(inv[p].calls)] = "clear_lock"
        /\ inv[q].pc = "clear_lock"
        /\ ~LockPresent(inv[q].instance_type)

(***************************************************************************)
(* C12.  A lock of 10 minutes or less is removed from the store or         *)
(* overwritten by the invocation that wrote it only: no step of another    *)
(* invocation, in set_purchase_lock or in clear_purchase_lock, deletes or  *)
(* replaces it.  Stated of the invocations whose read of the lock raised   *)
(* no error.                                                               *)
(***************************************************************************)
LockTouched(name) ==
    \/ name \notin DOMAIN ssm_lock'
    \/ ssm_lock'[name] # ssm_lock[name]
    \/ lock_writer'[name] # lock_writer[name]

C12_OnlyWriterRemoves ==
    [][\A p \in Procs :
          LET name == LockParam(inv[p].instance_type)
          IN (/\ Steps(p)
              /\ inv[p].lock_seen # "error"
              /\ LockPresent(inv[p].instance_type)
              /\ LockAge(inv[p].instance_type) <= LOCK_TTL_MINUTES
              /\ LockTouched(name))
                => lock_writer[name] = p]_vars

(***************************************************************************)
(* C13.  An ensure invocation whose directory query failed, so that        *)
(* get_active_capacity_blocks returned the empty list, submits no          *)
(* purchase.  Stated of the failed queries that hid a capacity block: the  *)
(* provider held one of the type and the list is empty.                    *)
(***************************************************************************)
DirectoryFailed(p) ==
    /\ "describe_all" \in Range(inv[p].calls)
    /\ inv[p].held_at_read # {}
    /\ inv[p].active_cbs_all_az = <<>>

C13_NoSubmitOnFailedQuery ==
    \A p \in Procs :
        (inv[p].requested = "ensure" /\ DirectoryFailed(p))
            => inv[p].submitted = 0

(***************************************************************************)
(* C14.  When ssm.put_parameter fails in set_purchase_lock the call is not *)
(* granted: the invocation returns locked with put_parameter as its last   *)
(* call, so that it queries no offerings and submits no purchase, and the  *)
(* failed write leaves nothing behind: the store is as it was, with no     *)
(* lock written by the invocation in it.                                   *)
(***************************************************************************)
WriteFails(p) ==
    /\ inv[p].pc = "put_lock"
    /\ Steps(p)
    /\ inv'[p].lock_stamp = -1

C14_WriteFailureDenies ==
    [][\A p \in Procs :
          LET name == LockParam(inv[p].instance_type)
          IN WriteFails(p)
               => /\ ssm_lock' = ssm_lock
                  /\ name \in DOMAIN ssm_lock' => lock_writer'[name] # p
                  /\ inv'[p].pc = "done"
                  /\ inv'[p].response.result = "locked"
                  /\ inv'[p].calls[Len(inv'[p].calls)] = "put_parameter"
                  /\ Range(inv'[p].calls)
                        \cap {"describe_offerings", "purchase"} = {}
                  /\ inv'[p].submitted = 0]_vars

\* The write of the lock failed after the lock was read as absent: the
\* invocation has returned locked and the store holds no lock
C14_Witness ==
    \E p \in Procs :
        /\ Done(p)
        /\ inv[p].lock_seen = "absent"
        /\ inv[p].calls[Len(inv[p].calls)] = "put_parameter"
        /\ Result(p) = "locked"
        /\ ~LockPresent(inv[p].instance_type)

(***************************************************************************)
(* C15.  When the submit call fails the invocation returns failed with the *)
(* lease released, and submits nothing more: an invocation calls           *)
(* purchase_capacity_block at most once, a failed submit creates no        *)
(* reservation, a failed invocation's last two calls are the submit and    *)
(* the release, and when it returns the lock it wrote is not in the store. *)
(***************************************************************************)
SubmitCount(p) ==
    Cardinality({i \in DOMAIN inv'[p].calls : inv'[p].calls[i] = "purchase"})

SubmitFails(p) ==
    /\ inv[p].pc = "purchase"
    /\ Steps(p)
    /\ inv'[p].response.result # "purchased"

ReleasesAfterFailure(p) ==
    /\ inv[p].pc = "clear_lock"
    /\ Steps(p)
    /\ inv[p].response.result = "failed"

C15_FailedSubmit ==
    [][\A p \in Procs :
          /\ SubmitCount(p) <= 1
          /\ SubmitFails(p)
               => /\ reservations' = reservations
                  /\ inv'[p].pc = "clear_lock"
                  /\ inv'[p].response = Response(500, "purchase", "failed")
          /\ ReleasesAfterFailure(p)
               => /\ inv'[p].pc = "done"
                  /\ inv'[p].response = inv[p].response
                  /\ SubSeq(inv'[p].calls, Len(inv'[p].calls) - 1,
                            Len(inv'[p].calls)) = <<"purchase", "clear_lock">>
                  /\ reservations' = reservations
                  /\ LET name == LockParam(inv[p].instance_type)
                     IN ~(/\ name \in DOMAIN ssm_lock'
                          /\ lock_writer'[name] = p)]_vars

(***************************************************************************)
(* C16.  The calls of an invocation come in one order: the directory is    *)
(* read first, then the lock is read and written, then the offerings are   *)
(* read, then the purchase is submitted, then the lock is released.  No    *)
(* call comes twice or out of its place, and the offerings are read, the   *)
(* purchase submitted and the lock released only by an invocation that     *)
(* wrote the lock, after the write.                                        *)
(***************************************************************************)
CallRank(c) ==
    CASE c = "describe_all" -> 1
      [] c = "describe_az" -> 2
      [] c = "get_parameter" -> 3
      [] c = "delete_parameter" -> 4
      [] c = "put_parameter" -> 5
      [] c = "describe_offerings" -> 6
      [] c = "purchase" -> 7
      [] c = "store_cb_info" -> 8
      [] c = "clear_lock" -> 9

C16_CallOrder ==
    \A p \in Procs :
        LET calls == inv[p].calls
        IN /\ \A i, j \in DOMAIN calls :
                i < j => CallRank(calls[i]) < CallRank(calls[j])
           /\ calls # <<>> => calls[1] = "describe_all"
           /\ "put_parameter" \in Range(calls)
                => "get_parameter" \in Range(calls)
           /\ Range(calls) \cap {"describe_offerings", "purchase",
                                 "clear_lock"} # {}
                => /\ "put_parameter" \in Range(calls)
                   /\ inv[p].lock_stamp # -1
           /\ "purchase" \in Range(calls)
                => "describe_offerings" \in Range(calls)
           /\ "clear_lock" \in Range(calls) => Done(p)

\* An invocation has returned purchased after the two directory reads, the
\* read and the write of the lock, the offerings, the purchase and the
\* release
C16_Witness ==
    \E p \in Procs :
        /\ Done(p)
        /\ Result(p) = "purchased"
        /\ {"describe_all", "describe_az", "get_parameter", "put_parameter",
            "describe_offerings", "purchase", "clear_lock"}
              \subseteq Range(inv[p].calls)

(***************************************************************************)
(* C17.  An invocation that is denied the lock returns locked and does     *)
(* nothing more: it reads no offerings, submits no purchase and leaves the *)
(* lock in the store as it is; clear_purchase_lock is run by granted       *)
(* invocations only.  As the claim has it, locked is returned only while   *)
(* the store holds a lock of 10 minutes or less that another wrote.        *)
(***************************************************************************)
ReturnsLocked(p) ==
    /\ Steps(p)
    /\ inv'[p].pc = "done"
    /\ inv'[p].response.result = "locked"

NothingMore(p) ==
    /\ ssm_lock' = ssm_lock
    /\ reservations' = reservations
    /\ Range(inv'[p].calls)
          \cap {"describe_offerings", "purchase", "clear_lock"} = {}
    /\ inv'[p].submitted = 0

HeldByAnother(p) ==
    /\ LockPresent(inv[p].instance_type)
    /\ LockAge(inv[p].instance_type) <= LOCK_TTL_MINUTES
    /\ lock_writer[LockParam(inv[p].instance_type)] # p

C17_LockedOnlyWhenHeld ==
    [][\A p \in Procs :
          ReturnsLocked(p) => NothingMore(p) /\ HeldByAnother(p)]_vars

(***************************************************************************)
(* C17, as the code has it.  An invocation whose read finds a lock of 10   *)
(* minutes or less returns locked.  An invocation returns locked only      *)
(* when set_purchase_lock returned False: its read found such a lock, or   *)
(* its write of the lock failed.  It then does nothing more, and           *)
(* clear_purchase_lock is run by granted invocations only.                 *)
(***************************************************************************)
ReadFindsFresh(p) ==
    /\ inv[p].pc = "get_lock"
    /\ inv'[p].lock_seen = "fresh"

C17_LockedWhenDenied ==
    [][\A p \in Procs :
          /\ ReadFindsFresh(p) => ReturnsLocked(p)
          /\ ReturnsLocked(p)
               => /\ NothingMore(p)
                  /\ \/ ReadFindsFresh(p) /\ HeldByAnother(p)
                     \/ WriteFails(p)
          /\ "clear_lock" \in Range(inv'[p].calls)
               => inv'[p].lock_stamp # -1]_vars

\* An invocation has returned locked on the lock another left in the store
C17_Witness ==
    \E p \in Procs :
        /\ Done(p)
        /\ Result(p) = "locked"
        /\ inv[p].lock_seen = "fresh"
        /\ LockPresent(inv[p].instance_type)
        /\ lock_writer[LockParam(inv[p].instance_type)] # p

(***************************************************************************)
(* C18.  No permanent lockout: while the store holds the lock of an        *)
(* invocation that stopped without releasing it, and ensure is invoked     *)
(* again and again with no reservation present, some later invocation is   *)
(* eventually granted the lock.                                            *)
(***************************************************************************)
LeftBehind ==
    /\ LockPresent(B200)
    /\ lock_writer[LockParam(B200)] = 0

SomeGranted == \E p \in Procs : Granted(p)

C18_NoPermanentLockout == LeftBehind ~> SomeGranted

\* An invocation found the lock left behind older than 10 minutes and was
\* granted a lock of its own
C18_Witness ==
    \E p \in Procs :
        /\ Granted(p)
        /\ inv[p].lock_seen = "expired"
        /\ inv[p].lock_stamp > LOCK_TTL_MINUTES
        /\ lock_writer[LockParam(B200)] = p

(***************************************************************************)
(* C19.  Every invocation returns a response, whichever of its calls fail: *)
(* no exception leaves the handler, every event sent is in the end         *)
(* answered, and an ensure invocation returns with one of the results      *)
(* exists, pending, locked, no_offerings, purchased, failed.               *)
(***************************************************************************)
EnsureResults ==
    {"exists", "pending", "locked", "no_offerings", "purchased", "failed"}

Responds(p) ==
    /\ inv[p].pc # "crashed"
    /\ Done(p) => inv[p].response.statusCode \in {200, 400, 404, 500}
    /\ (Done(p) /\ inv[p].requested = "ensure") => Result(p) \in EnsureResults
    /\ ~Done(p) => inv[p].response.statusCode \in {0, 200, 404, 500}

AllAnswered ==
    /\ requests = <<>>
    /\ \A p \in Procs : inv[p].pc \in {"idle", "done"}
    /\ \E p \in Procs : Done(p)

C19_AlwaysResponds ==
    /\ [](\A p \in Procs : Responds(p))
    /\ <>[]AllAnswered

\* An ensure invocation has returned failed after the purchase and the
\* delete of its lock both raised
C19_Witness ==
    \E p \in Procs :
        /\ Done(p)
        /\ inv[p].requested = "ensure"
        /\ Result(p) = "failed"
        /\ LockPresent(inv[p].instance_type)
        /\ lock_writer[LockParam(inv[p].instance_type)] = p

(***************************************************************************)
(* C20.  The locks of the instance types are independent: a step of an     *)
(* invocation for one type leaves the lock record of every other type as   *)
(* it is, and an invocation is denied on a lock it read only when that     *)
(* lock is the record of its own type.                                     *)
(***************************************************************************)
LockOf(store, instance_type) ==
    IF LockParam(instance_type) \in DOMAIN store
    THEN <<store[LockParam(instance_type)]>>
    ELSE <<>>

C20_LocksPerType ==
    [][\A p \in Procs :
          Steps(p) =>
            /\ \A t \in InstanceTypes \ {inv'[p].instance_type} :
                 LockOf(ssm_lock', t) = LockOf(ssm_lock, t)
            /\ ReadFindsFresh(p) =>
                 LockOf(ssm_lock, inv[p].instance_type)
                    \in {<<LockData(s, inv[p].instance_type)>> :
                            s \in 0..MaxTime}]_vars

\* Two invocations for two instance types are granted at once, each with
\* its lock in the store
C20_Witness ==
    \E p, q \in Procs :
        /\ inv[p].instance_type = B200
        /\ inv[q].instance_type = H100
        /\ Granted(p)
        /\ Granted(q)
        /\ LockPresent(B200)
        /\ LockPresent(H100)
        /\ lock_writer[LockParam(B200)] = p
        /\ lock_writer[LockParam(H100)] = q

=============================================================================
